---- MODULE Spec2Model ----
(***************************************************************************)
(* ForceFieldCircle (src/PhySimObjects/ForceFieldCircle.py): a circular    *)
(* body that accumulates the forces of the registry's force fields,        *)
(* resolves circle-circle collisions into pending accumulators, integrates *)
(* them in update and is clamped to the display rectangle.                 *)
(*                                                                         *)
(* Python floats are modelled as exact rationals <<n, d>> (d > 0, lowest   *)
(* terms): each sum, product and quotient is the real-number value the     *)
(* float operation rounds. Only the square root of a non-square rounds.    *)
(***************************************************************************)
EXTENDS Integers, Sequences, FiniteSets, TLC

\* ------------------------------------------------------------ rationals

Abs(i) ==
    IF i < 0 THEN -i ELSE i

RECURSIVE GCD(_, _)
GCD(a, b) ==
    IF b = 0 THEN a ELSE GCD(b, a % b)

\* The rational n/d in lowest terms with a positive denominator (d # 0).
Q(n, d) ==
    LET g == GCD(Abs(n), Abs(d))
        s == IF d < 0 THEN -1 ELSE 1
    IN  <<(s * n) \div g, (s * d) \div g>>

Zero ==
    <<0, 1>>

One ==
    <<1, 1>>

Two ==
    <<2, 1>>

\* The operations cancel common factors before they multiply, so that the
\* intermediate integers stay small.
RAdd(a, b) ==
    LET g == GCD(a[2], b[2])
    IN  Q(a[1] * (b[2] \div g) + b[1] * (a[2] \div g), (a[2] \div g) * b[2])

RNeg(a) ==
    <<-a[1], a[2]>>

RSub(a, b) ==
    RAdd(a, RNeg(b))

RMul(a, b) ==
    LET g == GCD(Abs(a[1]), b[2])
        h == GCD(Abs(b[1]), a[2])
    IN  IF a[1] = 0 \/ b[1] = 0 THEN <<0, 1>>
        ELSE <<(a[1] \div g) * (b[1] \div h), (a[2] \div h) * (b[2] \div g)>>

\* a / b for b # 0; every caller checks the divisor first, as Python raises
\* ZeroDivisionError there.
RDiv(a, b) ==
    RMul(a, IF b[1] < 0 THEN <<-b[2], -b[1]>> ELSE <<b[2], b[1]>>)

RLt(a, b) ==
    LET g == GCD(a[2], b[2])
    IN  a[1] * (b[2] \div g) < b[1] * (a[2] \div g)

RAbs(a) ==
    <<Abs(a[1]), a[2]>>

RMin(a, b) ==
    IF RLt(b, a) THEN b ELSE a

\* floor(sqrt(n)) for n >= 0, by bisection on lo..hi.
RECURSIVE Bisect(_, _, _)
Bisect(n, lo, hi) ==
    IF lo = hi THEN lo
    ELSE LET mid == (lo + hi + 1) \div 2
         IN  IF mid * mid <= n THEN Bisect(n, mid, hi) ELSE Bisect(n, lo, mid - 1)

ISqrt(n) ==
    Bisect(n, 0, IF n < 46340 THEN n ELSE 46340)

\* math.sqrt on a non-negative rational: exact when the value is the square
\* of a rational, else rounded down to a multiple of 1/(16 d), the model's
\* counterpart of the float rounding.
RSqrt(a) ==
    LET rn == ISqrt(a[1])
        rd == ISqrt(a[2])
    IN  IF rn * rn = a[1] /\ rd * rd = a[2] THEN <<rn, rd>>
        ELSE Q(ISqrt(a[1] * a[2] * 256), a[2] * 16)

\* -------------------------------------------------------- pygame.Vector2

Vec(x, y) ==
    [x |-> x, y |-> y]

ZeroVec ==
    Vec(Zero, Zero)

VAdd(u, v) ==
    Vec(RAdd(u.x, v.x), RAdd(u.y, v.y))

VSub(u, v) ==
    Vec(RSub(u.x, v.x), RSub(u.y, v.y))

VScale(u, k) ==
    Vec(RMul(u.x, k), RMul(u.y, k))

VDiv(u, k) ==
    Vec(RDiv(u.x, k), RDiv(u.y, k))

dot(u, v) ==
    RAdd(RMul(u.x, v.x), RMul(u.y, v.y))

length(u) ==
    RSqrt(dot(u, u))

distance_to(u, v) ==
    length(VSub(u, v))

\* Vector2.normalize of a vector of non-zero length (pygame raises ValueError
\* on the zero vector; resolve_collision handles that case before calling).
normalize(u) ==
    VDiv(u, length(u))

\* ------------------------------------------------------------ the state

VARIABLES
    body,          \* id -> the ForceFieldCircle's fields
    entities,      \* scenario.entity_manager.get_entities(), in registry order
    screen_rect,   \* scenario.display_surface.get_rect()
    delta_time,    \* the frame's timestep, passed to every call
    error,         \* "none", or the exception a call raised to its caller
    trace,         \* history: the calls made so far, <<method, id>>
    pre,           \* history: body as it was before the last call
    initial,       \* history: body as constructed
    unapplied,     \* history: id -> contributions sitting in a pending field, not yet applied
    applied,       \* history: id -> contributions sitting in a pending field, already applied
    discarded,     \* history: contributions reset before any update applied them
    reapplied      \* history: contributions an update applied a further time

vars ==
    <<body, entities, screen_rect, delta_time, error, trace, pre, initial,
      unapplied, applied, discarded, reapplied>>

MaxCalls ==
    4

\* ForceFieldCircle.__init__
ForceFieldCircle(x, y, radius, initial_velocity, mass, restitution) ==
    [position |-> Vec(x, y),
     velocity |-> initial_velocity,
     mass |-> mass,
     restitution |-> restitution,
     radius |-> radius,
     net_force_accumulated |-> ZeroVec,
     pending_velocity_change |-> ZeroVec,
     pending_position_correction |-> ZeroVec]

CircleEntity(id) ==
    [kind |-> "ForceFieldCircle", id |-> id, force |-> ZeroVec]

FieldEntity(force) ==
    [kind |-> "ForceField", id |-> 0, force |-> force]

\* ForceField.get_applied_force(body): a field of constant force.
get_applied_force(field, e) ==
    field.force

\* CircleShape.intersects(other_shape, position, other_position)
intersects(radius, other_radius, position, other_position) ==
    LET d == VSub(position, other_position)
        combined == RAdd(radius, other_radius)
    IN  IF RLt(combined, Zero) THEN FALSE
        ELSE RLt(dot(d, d), RMul(combined, combined))

\* --------------------------------------------------- resolve_collision

\* line 52: the pair is resolved only when overlapping at non-zero distance
overlapping_any_distance(distance, combined_radii) ==
    RLt(distance, combined_radii)

overlapping(distance, combined_radii) ==
    RLt(distance, combined_radii) /\ distance # Zero

\* lines 56-57: a correction is added to the pending field of a body
apply_position_correction_now(e, delta) ==
    [e EXCEPT !.position = VAdd(@, delta)]

record_position_correction(e, delta) ==
    [e EXCEPT !.pending_position_correction = VAdd(@, delta)]

\* lines 72-73
record_velocity_change(e, delta) ==
    [e EXCEPT !.pending_velocity_change = VAdd(@, delta)]

add_position_correction(st, id, delta) ==
    [st EXCEPT !.body[id] = record_position_correction(@, delta),
               !.log = Append(@, <<id, "position">>)]

add_velocity_change(st, id, delta) ==
    [st EXCEPT !.body[id] = record_velocity_change(@, delta),
               !.log = Append(@, <<id, "velocity">>)]

raise(st, exception) ==
    [st EXCEPT !.error = exception]

\* lines 62-73, entered with velocity_along_normal < 0
resolve_impulse(st, self, other, direction, velocity_along_normal) ==
    LET me == st.body[self]
        other_circle == st.body[other]
        e == RMin(me.restitution, other_circle.restitution)
        j0 == RMul(RNeg(RAdd(One, e)), velocity_along_normal)
    IN  IF me.mass = Zero \/ other_circle.mass = Zero
        THEN raise(st, "ZeroDivisionError")                       \* line 65
        ELSE LET j_divisor == RAdd(RDiv(One, me.mass), RDiv(One, other_circle.mass))
             IN  IF j_divisor = Zero THEN st                      \* lines 66-67
                 ELSE LET j == RDiv(j0, j_divisor)
                          impulse == VScale(direction, j)
                          st1 == add_velocity_change(st, self, VDiv(impulse, me.mass))
                      IN  add_velocity_change(st1, other,
                              VScale(VDiv(impulse, other_circle.mass), RNeg(One)))

\* lines 47-73; st = [body, error, log]
resolve_collision(st, self, other) ==
    LET me == st.body[self]
        other_circle == st.body[other]
        distance == distance_to(me.position, other_circle.position)
        combined_radii == RAdd(me.radius, other_circle.radius)
    IN  IF ~overlapping(distance, combined_radii) THEN st
        ELSE IF length(VSub(me.position, other_circle.position)) = Zero
        THEN raise(st, "ValueError")                              \* normalize, line 54
        ELSE LET overlap == RSub(combined_radii, distance)
                 direction == normalize(VSub(me.position, other_circle.position))
                 half == VScale(direction, RDiv(overlap, Two))
                 st1 == add_position_correction(st, self, half)
                 st2 == add_position_correction(st1, other, VScale(half, RNeg(One)))
                 relative_velocity == VSub(me.velocity, other_circle.velocity)
                 velocity_along_normal == dot(relative_velocity, direction)
             IN  IF RLt(velocity_along_normal, Zero)
                 THEN resolve_impulse(st2, self, other, direction, velocity_along_normal)
                 ELSE st2

\* --------------------------------------------------- calculate_physics

\* lines 78-79
apply_force(e, force) ==
    [e EXCEPT !.net_force_accumulated = VAdd(@, force)]

\* lines 85-88, over entities[i..]
RECURSIVE accumulate_forces(_, _)
accumulate_forces(e, i) ==
    IF i > Len(entities) THEN e
    ELSE IF entities[i].kind = "ForceField"
         THEN accumulate_forces(apply_force(e, get_applied_force(entities[i], e)), i + 1)
         ELSE accumulate_forces(e, i + 1)

\* lines 90-91
reset_pending(e) ==
    [e EXCEPT !.pending_velocity_change = ZeroVec,
              !.pending_position_correction = ZeroVec]

\* lines 93-97, over entities[i..]; an exception ends the loop
RECURSIVE resolve_all(_, _, _)
resolve_all(st, self, i) ==
    IF i > Len(entities) \/ st.error # "none" THEN st
    ELSE LET other_entity == entities[i]
         IN  IF /\ other_entity.kind = "ForceFieldCircle"
                /\ other_entity.id # self
                /\ intersects(st.body[self].radius, st.body[other_entity.id].radius,
                              st.body[self].position, st.body[other_entity.id].position)
             THEN resolve_all(resolve_collision(st, self, other_entity.id), self, i + 1)
             ELSE resolve_all(st, self, i + 1)

\* lines 84-97
calculate_physics(bodies, self) ==
    LET e1 == reset_pending(accumulate_forces(bodies[self], 1))
        st == [body |-> [bodies EXCEPT ![self] = e1], error |-> "none", log |-> <<>>]
    IN  resolve_all(st, self, 1)

\* -------------------------------------------------------------- update

\* line 114: the anti-jitter threshold
Threshold ==
    Q(1, 10)

\* lines 100-102: the velocity after the accumulated force has acted
force_velocity_if_mass(e, dt) ==
    IF e.mass # Zero
    THEN VAdd(e.velocity, VScale(VDiv(e.net_force_accumulated, e.mass), dt))
    ELSE e.velocity

force_velocity(e, dt) ==
    IF RLt(Zero, e.mass)
    THEN VAdd(e.velocity, VScale(VDiv(e.net_force_accumulated, e.mass), dt))
    ELSE e.velocity

\* lines 81-82
apply_movement(e, dt) ==
    [e EXCEPT !.position = VAdd(@, VScale(e.velocity, dt))]

\* lines 100-108
integrate_position_first(e, dt) ==
    LET moved == apply_movement([e EXCEPT !.position = VAdd(@, e.pending_position_correction)], dt)
    IN  [moved EXCEPT !.velocity = VAdd(force_velocity(e, dt), e.pending_velocity_change),
                      !.net_force_accumulated = ZeroVec]

integrate(e, dt) ==
    LET e1 == [e EXCEPT !.velocity = force_velocity(e, dt),
                        !.net_force_accumulated = ZeroVec]
        e2 == [e1 EXCEPT !.velocity = VAdd(@, e1.pending_velocity_change),
                         !.position = VAdd(@, e1.pending_position_correction)]
    IN  apply_movement(e2, dt)

\* lines 113-114 (and 117-118, 121-122, 125-126): one axis's velocity component
\* is reflected, and zeroed when it is left below the threshold
bounce_undamped(v, restitution) ==
    RMul(v, RNeg(restitution))

bounce(v, restitution) ==
    LET w == RMul(v, RNeg(restitution))
    IN  IF RLt(RAbs(w), Threshold) THEN Zero ELSE w

\* lines 111-118 on x with (left, right), lines 119-126 on y with (top, bottom):
\* <<position component, velocity component>> after the two tests, in order
clamp_axis_no_radius(p, v, radius, restitution, lo, hi) ==
    LET a == IF RLt(RSub(p, radius), lo)
             THEN <<RAdd(lo, radius), bounce(v, restitution)>>
             ELSE <<p, v>>
    IN  IF RLt(hi, RAdd(a[1], radius))
        THEN <<hi, bounce(a[2], restitution)>>
        ELSE a

clamp_axis(p, v, radius, restitution, lo, hi) ==
    LET a == IF RLt(RSub(p, radius), lo)
             THEN <<RAdd(lo, radius), bounce(v, restitution)>>
             ELSE <<p, v>>
    IN  IF RLt(hi, RAdd(a[1], radius))
        THEN <<RSub(hi, radius), bounce(a[2], restitution)>>
        ELSE a

\* lines 110-126
boundary(e, rect) ==
    LET cx == clamp_axis(e.position.x, e.velocity.x, e.radius, e.restitution,
                         rect.left, rect.right)
        cy == clamp_axis(e.position.y, e.velocity.y, e.radius, e.restitution,
                         rect.top, rect.bottom)
    IN  [e EXCEPT !.position = Vec(cx[1], cy[1]), !.velocity = Vec(cx[2], cy[2])]

\* lines 99-126
update(e, dt, rect) ==
    boundary(integrate(e, dt), rect)

\* ---------------------------------------------------------- the scenarios

Whole(i) ==
    <<i, 1>>

IVec(x, y) ==
    Vec(Whole(x), Whole(y))

\* pygame.Surface.get_rect(): the top left corner is (0, 0)
Rect(width, height) ==
    [left |-> Zero, top |-> Zero, right |-> Whole(width), bottom |-> Whole(height)]

DeltaTimes ==
    {Q(1, 2), One}

NoPending ==
    [position |-> 0, velocity |-> 0]

\* Two circles in the registry: body 2 sits at body 1's place plus an offset.
PairOffsets ==
    {IVec(0, 0), IVec(3, 0), IVec(3, 4)}

PairRadii ==
    {Whole(3)}

PairVelocities(offset) ==
    {<<ZeroVec, ZeroVec>>,
     IF offset = ZeroVec THEN <<IVec(1, 0), IVec(-1, 0)>>
     ELSE <<offset, VScale(offset, RNeg(One))>>}

PairMasses ==
    {<<One, One>>, <<Zero, One>>, <<One, Whole(-1)>>, <<Two, One>>, <<Two, Whole(-1)>>}

PairRestitutions ==
    {<<One, One>>, <<Q(1, 2), One>>}

\* no field, or one field pushing along the line of the two centres
PairFields(offset) ==
    {<<>>, <<FieldEntity(VScale(offset, Two))>>}

InitPair ==
    \E offset \in PairOffsets, radius \in PairRadii, m \in PairMasses,
       r \in PairRestitutions, dt \in DeltaTimes :
      \E v \in PairVelocities(offset), f \in PairFields(offset) :
        /\ body = (1 :> ForceFieldCircle(Whole(18), Whole(20), radius, v[1], m[1], r[1]))
               @@ (2 :> ForceFieldCircle(RAdd(Whole(18), offset.x), RAdd(Whole(20), offset.y),
                                         radius, v[2], m[2], r[2]))
        /\ entities = f \o <<CircleEntity(1), CircleEntity(2)>>
        /\ screen_rect = Rect(40, 40)
        /\ delta_time = dt

\* One circle in the registry, anywhere, in any rectangle.
SoloPositions ==
    {IVec(10, 10), IVec(1, 38)}

SoloVelocities ==
    {ZeroVec, IVec(-50, 7), Vec(Q(1, 10), Q(-1, 10))}

SoloMasses ==
    {Two, Zero, Whole(-1)}

SoloRestitutions ==
    {Q(1, 2), One}

SoloFields ==
    {<<>>, <<FieldEntity(IVec(0, 10))>>,
     <<FieldEntity(IVec(0, 10)), FieldEntity(IVec(4, 0))>>}

SoloRects ==
    {Rect(40, 40), Rect(3, 40), Rect(40, 3)}

InitSolo ==
    \E p \in SoloPositions, v \in SoloVelocities, m \in SoloMasses,
       r \in SoloRestitutions, f \in SoloFields, rect \in SoloRects, dt \in DeltaTimes :
        /\ body = (1 :> ForceFieldCircle(p.x, p.y, Two, v, m, r))
        /\ entities = f \o <<CircleEntity(1)>>
        /\ screen_rect = rect
        /\ delta_time = dt

Init ==
    /\ InitPair \/ InitSolo
    /\ error = "none"
    /\ trace = <<>>
    /\ pre = body
    /\ initial = body
    /\ unapplied = [b \in DOMAIN body |-> NoPending]
    /\ applied = [b \in DOMAIN body |-> NoPending]
    /\ discarded = 0
    /\ reapplied = 0

\* ------------------------------------------------------------ the calls

Count(log, id, field) ==
    Cardinality({i \in DOMAIN log : log[i] = <<id, field>>})

\* body b's calculate_physics(delta_time, scenario)
CalculatePhysics(b) ==
    /\ error = "none"
    /\ Len(trace) < MaxCalls
    /\ \E st \in {calculate_physics(body, b)} :
           /\ body' = st.body
           /\ error' = st.error
           /\ unapplied' = [c \in DOMAIN body |->
                  [f \in {"position", "velocity"} |->
                      (IF c = b THEN 0 ELSE unapplied[c][f]) + Count(st.log, c, f)]]
    /\ applied' = [applied EXCEPT ![b] = NoPending]
    /\ discarded' = discarded + unapplied[b].position + unapplied[b].velocity
    /\ trace' = Append(trace, <<"calculate_physics", b>>)
    /\ pre' = body
    /\ UNCHANGED <<entities, screen_rect, delta_time, initial, reapplied>>

\* body b's update(delta_time, scenario)
Update(b) ==
    /\ error = "none"
    /\ Len(trace) < MaxCalls
    /\ body' = [body EXCEPT ![b] = update(@, delta_time, screen_rect)]
    /\ reapplied' = reapplied + applied[b].position + applied[b].velocity
    /\ applied' = [applied EXCEPT ![b] =
           [f \in {"position", "velocity"} |-> applied[b][f] + unapplied[b][f]]]
    /\ unapplied' = [unapplied EXCEPT ![b] = NoPending]
    /\ trace' = Append(trace, <<"update", b>>)
    /\ pre' = body
    /\ UNCHANGED <<entities, screen_rect, delta_time, error, initial, discarded>>

Next ==
    \/ \E b \in DOMAIN body : CalculatePhysics(b)
    \/ \E b \in DOMAIN body : Update(b)

Spec ==
    Init /\ [][Next]_vars

\* ------------------------------------------------------------ the claims

Called(method, b) ==
    trace # <<>> /\ trace[Len(trace)] = <<method, b>>

CallsOn(b) ==
    SelectSeq(trace, LAMBDA c : c[2] = b)

\* One simulation step has run for every body: calculate_physics, then update,
\* once each, the bodies' calls interleaved in any order.
FullStep ==
    \A b \in DOMAIN body : CallsOn(b) = <<<<"calculate_physics", b>>, <<"update", b>>>>

\* Body b has just finished a step of its own: its update, after exactly one
\* calculate_physics since its previous update (or since construction).
StepDone(b) ==
    LET c == CallsOn(b)
        n == Len(c)
    IN  /\ Called("update", b)
        /\ n >= 2
        /\ c[n - 1][1] = "calculate_physics"
        /\ (n >= 3 => c[n - 2][1] = "update")

RECURSIVE FieldSum(_)
FieldSum(i) ==
    IF i > Len(entities) THEN ZeroVec
    ELSE VAdd(IF entities[i].kind = "ForceField" THEN entities[i].force ELSE ZeroVec,
              FieldSum(i + 1))

RLe(a, b) ==
    ~RLt(b, a)

InsideX(p, radius) ==
    RLe(RAdd(screen_rect.left, radius), p.x) /\ RLe(p.x, RSub(screen_rect.right, radius))

InsideY(p, radius) ==
    RLe(RAdd(screen_rect.top, radius), p.y) /\ RLe(p.y, RSub(screen_rect.bottom, radius))

FitsX(radius) ==
    RLe(RMul(Two, radius), RSub(screen_rect.right, screen_rect.left))

FitsY(radius) ==
    RLe(RMul(Two, radius), RSub(screen_rect.bottom, screen_rect.top))

\* Strictly inside the rectangle: no edge was touched.
Clear(e) ==
    /\ RLt(RAdd(screen_rect.left, e.radius), e.position.x)
    /\ RLt(e.position.x, RSub(screen_rect.right, e.radius))
    /\ RLt(RAdd(screen_rect.top, e.radius), e.position.y)
    /\ RLt(e.position.y, RSub(screen_rect.bottom, e.radius))

\* C1 as stated: after an update the body lies within the rectangle on both
\* axes, whatever the rectangle.
C1_Containment ==
    \A b \in DOMAIN body :
        Called("update", b) =>
            InsideX(body[b].position, body[b].radius) /\ InsideY(body[b].position, body[b].radius)

\* C1 amended: after an update the body lies within the rectangle on every
\* axis on which the rectangle spans at least 2 * radius; on a narrower axis it
\* ends at right - radius (bottom - radius).
C1_ContainmentWhenFits ==
    \A b \in DOMAIN body :
        Called("update", b) =>
            LET e == body[b]
            IN  /\ FitsX(e.radius) => InsideX(e.position, e.radius)
                /\ FitsY(e.radius) => InsideY(e.position, e.radius)
                /\ ~FitsX(e.radius) => e.position.x = RSub(screen_rect.right, e.radius)
                /\ ~FitsY(e.radius) => e.position.y = RSub(screen_rect.bottom, e.radius)

\* An update whose integration left the body outside a rectangle it fits in.
C1_Witness ==
    \E b \in DOMAIN body :
        /\ Called("update", b)
        /\ FitsX(body[b].radius) /\ FitsY(body[b].radius)
        /\ ~InsideX(integrate(pre[b], delta_time).position, body[b].radius)
        /\ ~InsideY(integrate(pre[b], delta_time).position, body[b].radius)

HeadOnElastic ==
    /\ DOMAIN initial = {1, 2}
    /\ initial[1].mass = One /\ initial[2].mass = One
    /\ initial[1].restitution = One /\ initial[2].restitution = One
    /\ initial[1].position # initial[2].position
    /\ intersects(initial[1].radius, initial[2].radius, initial[1].position, initial[2].position)
    /\ initial[1].velocity = VScale(initial[2].velocity, RNeg(One))
    /\ LET d == VSub(initial[1].position, initial[2].position)
           v == initial[1].velocity
       IN  /\ RLt(dot(v, d), Zero)
           /\ RMul(v.x, d.y) = RMul(v.y, d.x)

\* C2: two overlapping bodies of mass 1 and restitution 1 that approach head-on
\* with velocities v and -v have, after one simulation step of both (no force
\* field, no boundary contact), the velocities -v and v.
C2_ElasticSwap ==
    (/\ FullStep
     /\ HeadOnElastic
     /\ FieldSum(1) = ZeroVec
     /\ \A b \in DOMAIN body : Clear(body[b]))
    => /\ body[1].velocity = VScale(initial[1].velocity, RNeg(One))
       /\ body[2].velocity = VScale(initial[2].velocity, RNeg(One))

Tolerance ==
    Q(1, 1000)

OverlappingAtRest ==
    /\ DOMAIN initial = {1, 2}
    /\ initial[1].position # initial[2].position
    /\ intersects(initial[1].radius, initial[2].radius, initial[1].position, initial[2].position)
    /\ initial[1].velocity = ZeroVec /\ initial[2].velocity = ZeroVec

\* C3: two bodies at rest with distinct centres that overlap are, after one
\* full step of both (no force field, no boundary contact), at least
\* radiusA + radiusB apart, up to a small tolerance.
C3_NoPenetration ==
    (/\ FullStep
     /\ OverlappingAtRest
     /\ FieldSum(1) = ZeroVec
     /\ \A b \in DOMAIN body : Clear(body[b]))
    => RLe(RSub(RAdd(body[1].radius, body[2].radius), Tolerance),
           distance_to(body[1].position, body[2].position))

\* C4: every contribution added to a pending field is applied by exactly one
\* update: none is reset before an update applied it, none is applied again.
C4_ConsumedOnce ==
    discarded = 0 /\ reapplied = 0

ZeroMassApproaching(b, o) ==
    /\ o # b
    /\ pre[b].position # pre[o].position
    /\ intersects(pre[b].radius, pre[o].radius, pre[b].position, pre[o].position)
    /\ RLt(dot(VSub(pre[b].velocity, pre[o].velocity),
               VSub(pre[b].position, pre[o].position)), Zero)
    /\ (pre[b].mass = Zero \/ pre[o].mass = Zero)

\* C5: calculate_physics on an overlapping, approaching pair with a body of
\* mass 0 raises nothing and leaves both pending_velocity_change untouched.
C5_ZeroMassGuard ==
    \A b \in DOMAIN body : \A o \in DOMAIN body :
        (Called("calculate_physics", b) /\ ZeroMassApproaching(b, o)) =>
            /\ error = "none"
            /\ body[b].pending_velocity_change = ZeroVec
            /\ body[o].pending_velocity_change = pre[o].pending_velocity_change

NoCollisionPending(e) ==
    e.pending_velocity_change = ZeroVec /\ e.pending_position_correction = ZeroVec

\* C6: a step of a body of mass > 0 with no collision contribution pending and
\* no boundary contact sets velocity to old + (sum of the fields' forces /
\* mass) * dt, then position to old + new velocity * dt.
C6_ForceOnlyMotion ==
    \A b \in DOMAIN body :
        LET old == pre[b]
            v == VAdd(old.velocity, VScale(VDiv(FieldSum(1), old.mass), delta_time))
            p == VAdd(old.position, VScale(v, delta_time))
        IN  (/\ StepDone(b)
             /\ RLt(Zero, old.mass)
             /\ NoCollisionPending(old)
             /\ InsideX(p, old.radius) /\ InsideY(p, old.radius))
            => body[b].velocity = v /\ body[b].position = p

\* mass 2, at rest, one field of (0, 10), dt 1: velocity (0, 5), moved by (0, 5)
C6_Witness ==
    \E b \in DOMAIN body :
        /\ StepDone(b)
        /\ pre[b].mass = Two /\ pre[b].velocity = ZeroVec /\ delta_time = One
        /\ FieldSum(1) = IVec(0, 10)
        /\ body[b].velocity = IVec(0, 5)
        /\ body[b].position = VAdd(pre[b].position, IVec(0, 5))

Coincident(b) ==
    /\ DOMAIN body # {b}
    /\ \A o \in DOMAIN body : pre[o].position = pre[b].position

\* C7: calculate_physics of a body whose centre coincides with the other
\* bodies' raises nothing, leaves its own pending fields at zero and the
\* others' as they were.
C7_DegeneratePair ==
    \A b \in DOMAIN body :
        (Called("calculate_physics", b) /\ Coincident(b)) =>
            /\ error = "none"
            /\ NoCollisionPending(body[b])
            /\ \A o \in DOMAIN body \ {b} :
                   /\ body[o].pending_velocity_change = pre[o].pending_velocity_change
                   /\ body[o].pending_position_correction = pre[o].pending_position_correction

C7_Witness ==
    \E b \in DOMAIN body :
        /\ Called("calculate_physics", b)
        /\ Coincident(b)
        /\ \E o \in DOMAIN body : pre[o].velocity # pre[b].velocity

HitsLow(p, radius, lo) ==
    RLt(RSub(p, radius), lo)

HitsHigh(p, radius, lo, hi) ==
    RLt(hi, RAdd(IF HitsLow(p, radius, lo) THEN RAdd(lo, radius) ELSE p, radius))

\* One axis of C8: v is the component after update, u the one before the bounce.
Damped(u, v, restitution) ==
    LET reflected == RMul(RNeg(restitution), u)
    IN  IF RLt(RAbs(reflected), Q(1, 10)) THEN v = Zero ELSE v = reflected

\* C8 as stated: on an axis on which update clamps the body, the velocity
\* component after update is 0 when the reflected component is below 0.1 in
\* magnitude, and the reflected component otherwise.
C8_Damping ==
    \A b \in DOMAIN body :
        Called("update", b) =>
            LET i == integrate(pre[b], delta_time)
                e == body[b]
            IN  /\ (\/ HitsLow(i.position.x, e.radius, screen_rect.left)
                    \/ HitsHigh(i.position.x, e.radius, screen_rect.left, screen_rect.right))
                   => Damped(i.velocity.x, e.velocity.x, e.restitution)
                /\ (\/ HitsLow(i.position.y, e.radius, screen_rect.top)
                    \/ HitsHigh(i.position.y, e.radius, screen_rect.top, screen_rect.bottom))
                   => Damped(i.velocity.y, e.velocity.y, e.restitution)

OneEdge(p, radius, lo, hi) ==
    HitsLow(p, radius, lo) # HitsHigh(p, radius, lo, hi)

\* C8 amended: the same, on an axis on which update clamps the body against
\* exactly one edge.
C8_DampingOneEdge ==
    \A b \in DOMAIN body :
        Called("update", b) =>
            LET i == integrate(pre[b], delta_time)
                e == body[b]
            IN  /\ OneEdge(i.position.x, e.radius, screen_rect.left, screen_rect.right)
                   => Damped(i.velocity.x, e.velocity.x, e.restitution)
                /\ OneEdge(i.position.y, e.radius, screen_rect.top, screen_rect.bottom)
                   => Damped(i.velocity.y, e.velocity.y, e.restitution)

\* A bounce off one edge whose reflected component is non-zero and below 0.1.
C8_Witness ==
    \E b \in DOMAIN body :
        LET i == integrate(pre[b], delta_time)
        IN  /\ Called("update", b)
            /\ OneEdge(i.position.x, body[b].radius, screen_rect.left, screen_rect.right)
            /\ i.velocity.x # Zero
            /\ RLt(RAbs(RMul(body[b].restitution, i.velocity.x)), Q(1, 10))
            /\ body[b].velocity.x = Zero

\* One axis of C9: (p, u) before the boundary tests, (q, v) after update.
AfterBoundary(p, u, q, v, radius, restitution, lo, hi) ==
    LET r1 == RMul(RNeg(restitution), u)
        b1 == IF RLt(RAbs(r1), Q(1, 10)) THEN Zero ELSE r1
        r2 == RMul(RNeg(restitution), b1)
        b2 == IF RLt(RAbs(r2), Q(1, 10)) THEN Zero ELSE r2
    IN  IF RLe(RAdd(lo, radius), p) /\ RLe(p, RSub(hi, radius))
        THEN q = p /\ v = u
        ELSE q \in {RAdd(lo, radius), RSub(hi, radius)} /\ v \in {b1, b2}

\* C9: update of a body of mass <= 0 raises nothing, zeroes
\* net_force_accumulated, and moves the body by its pending fields alone:
\* velocity + pending_velocity_change, position + pending_position_correction
\* + that velocity * dt, then the boundary tests.
C9_NonPositiveMass ==
    \A b \in DOMAIN body :
        (Called("update", b) /\ RLe(pre[b].mass, Zero)) =>
            LET old == pre[b]
                e == body[b]
                u == VAdd(old.velocity, old.pending_velocity_change)
                p == VAdd(VAdd(old.position, old.pending_position_correction),
                          VScale(u, delta_time))
            IN  /\ error = "none"
                /\ e.net_force_accumulated = ZeroVec
                /\ AfterBoundary(p.x, u.x, e.position.x, e.velocity.x, e.radius,
                                 e.restitution, screen_rect.left, screen_rect.right)
                /\ AfterBoundary(p.y, u.y, e.position.y, e.velocity.y, e.radius,
                                 e.restitution, screen_rect.top, screen_rect.bottom)

\* A body of negative mass with force and both pending fields non-zero.
C9_Witness ==
    \E b \in DOMAIN body :
        /\ Called("update", b)
        /\ RLt(pre[b].mass, Zero)
        /\ pre[b].net_force_accumulated # ZeroVec
        /\ pre[b].pending_velocity_change # ZeroVec
        /\ pre[b].pending_position_correction # ZeroVec
        /\ body[b].velocity = VAdd(pre[b].velocity, pre[b].pending_velocity_change)

\* C10: calculate_physics changes no body's position, velocity, mass, radius
\* or restitution, and of another body only the two pending fields.
C10_RecordedNotApplied ==
    \A b \in DOMAIN body :
        Called("calculate_physics", b) =>
            \A c \in DOMAIN body :
                /\ body[c].position = pre[c].position
                /\ body[c].velocity = pre[c].velocity
                /\ body[c].mass = pre[c].mass
                /\ body[c].radius = pre[c].radius
                /\ body[c].restitution = pre[c].restitution
                /\ c # b => body[c].net_force_accumulated = pre[c].net_force_accumulated

\* A calculate_physics that recorded a correction and an impulse for both bodies.
C10_Witness ==
    \E b \in DOMAIN body : \E c \in DOMAIN body \ {b} :
        /\ Called("calculate_physics", b)
        /\ body[c].pending_position_correction # pre[c].pending_position_correction
        /\ body[c].pending_velocity_change # pre[c].pending_velocity_change
        /\ body[b].pending_position_correction # ZeroVec
        /\ body[b].pending_velocity_change # ZeroVec

====
